---- MODULE Spec2Model ----
(***************************************************************************)
(* Model of anomalib/models/rbad/region.py: the patch extractor, the       *)
(* tiler, the patch-box normaliser and the region extraction pipeline      *)
(* (RegionExtractor.forward / postprocess_detections).                     *)
(*                                                                         *)
(* Every function of the file is pure, so each specification draws the     *)
(* arguments of one call in its initial states (pc = "call") and its       *)
(* action applies the function to them (pc = "done", ret = the result).    *)
(*                                                                         *)
(* Coordinates.  Tensors of whole numbers are modelled by integers.        *)
(* Floating-point boxes that reach round_() are modelled in half units     *)
(* (the integer h stands for h/2), so that rounding is not the identity.   *)
(***************************************************************************)
EXTENDS Integers, Sequences, FiniteSets, TLC

VARIABLES pc, call, ret

vars == <<pc, call, ret>>

(***************************************************************************)
(* Bounds of the model.                                                    *)
(***************************************************************************)
\* convert_to_patch_boxes: box coordinates in half units, frame and patch sides
MinHalf == 2
MaxHalf == 7
MaxFrame == 5
MaxSide == 4
\* tiled_boxes: frame sides 1..MaxTileDim (and 64, 68), tile sides
\* 1..MaxTileSide (and 32), at most MaxTilesPerAxis tiles on an axis
MaxTileDim == 8
MaxTileSide == 5
MaxTilesPerAxis == 14
\* extract_patches_from_frame: frame sides 1..MaxPix, box coordinates
\* -1..MaxPix+1, patch sides 1..MaxPatch
MaxPix == 3
MaxPatch == 2
\* forward: at most MaxFrames frames in a call (C1), at most MaxProposals
\* boxes for a frame (C7, C8)
MaxFrames == 2
MaxProposals == 3
\* postprocess_detections: up to MaxExtra detections more than
\* rcnn_detections_per_img in a row of disjoint boxes, and MaxFree free ones
MaxExtra == 1
MaxFree == 2

(***************************************************************************)
(* Generic helpers.                                                        *)
(***************************************************************************)
Max2(a, b) == IF a >= b THEN a ELSE b

Min2(a, b) == IF a <= b THEN a ELSE b

\* A box is <<x1, y1, x2, y2>>.
Box(x1, y1, x2, y2) == <<x1, y1, x2, y2>>

(***************************************************************************)
(* convert_to_patch_boxes (region.py 302-361)                              *)
(***************************************************************************)
\* torch round_(): round half to even.  h is the coordinate in half units.
Round(h) ==
    IF h % 2 = 0 THEN h \div 2
    ELSE LET f == (h - 1) \div 2 IN IF f % 2 = 0 THEN f ELSE f + 1

\* boxes.round_().to(torch.int32) for one box
RoundBox(b) == Box(Round(b[1]), Round(b[2]), Round(b[3]), Round(b[4]))

\* mutant: the parity fix of lines 320-321 left out
ForceEven_NoParityFix(b) == b

\* x2[(widths % 2) == 1] += 1 ; y2[(heights % 2) == 1] += 1
\* (x2, y2 are views of boxes; % on an int tensor has the sign of the divisor)
ForceEven(b) ==
    LET widths == b[3] - b[1]
        heights == b[4] - b[2]
    IN Box(b[1], b[2],
           IF widths % 2 = 1 THEN b[3] + 1 ELSE b[3],
           IF heights % 2 = 1 THEN b[4] + 1 ELSE b[4])

\* v / 2 stored into an int32 tensor: the quotient is truncated toward zero
HalfToInt32(v) == IF v >= 0 THEN v \div 2 ELSE -((-v) \div 2)

\* deltas[:, 0..3] and boxes = boxes + deltas
AddDeltas(b, target_side_length) ==
    LET widths == b[3] - b[1]
        heights == b[4] - b[2]
    IN Box(b[1] + HalfToInt32(widths - target_side_length),
           b[2] + HalfToInt32(heights - target_side_length),
           b[3] + HalfToInt32(target_side_length - widths),
           b[4] + HalfToInt32(target_side_length - heights))

\* overhang = v; overhang[overhang < 0] = 0
Overhang(v) == IF v < 0 THEN 0 ELSE v

\* lines 336-340: shift right by the overhang past x = 0
ClampLowX(b) ==
    LET overhang == Overhang(b[1] * (-1))
    IN Box(b[1] + overhang, b[2], b[3] + overhang, b[4])

\* lines 342-346: shift down by the overhang past y = 0
ClampLowY(b) ==
    LET overhang == Overhang(b[2] * (-1))
    IN Box(b[1], b[2] + overhang, b[3], b[4] + overhang)

\* lines 348-352: shift left by the overhang past x = width - 1
ClampHighX(b, frame_size) ==
    LET overhang == Overhang(b[3] - frame_size[2] + 1)
    IN Box(b[1] - overhang, b[2], b[3] - overhang, b[4])

\* lines 354-358: shift up by the overhang past y = height - 1
ClampHighY(b, frame_size) ==
    LET overhang == Overhang(b[4] - frame_size[1] + 1)
    IN Box(b[1], b[2] - overhang, b[3], b[4] - overhang)

\* mutant: the high-edge clamp (348-358) applied before the low-edge clamp (336-346)
ConvertBox_HighClampFirst(b, frame_size, target_side_length) ==
    ClampLowY(
      ClampLowX(
        ClampHighY(
          ClampHighX(
            AddDeltas(ForceEven(RoundBox(b)), target_side_length),
            frame_size),
          frame_size)))

\* one row of the tensor through lines 306-358
ConvertBox(b, frame_size, target_side_length) ==
    ClampHighY(
      ClampHighX(
        ClampLowY(
          ClampLowX(
            AddDeltas(ForceEven(RoundBox(b)), target_side_length))),
        frame_size),
      frame_size)

\* convert_to_patch_boxes(boxes, frame_size, target_side_length);
\* frame_size is <<height, width>>.  The assert on line 307 fails for an odd
\* side length.
convert_to_patch_boxes(boxes, frame_size, target_side_length) ==
    IF target_side_length % 2 # 0
    THEN [status |-> "AssertionError"]
    ELSE [status |-> "ok",
          boxes |-> [i \in 1..Len(boxes) |->
                        ConvertBox(boxes[i], frame_size, target_side_length)]]

\* the arguments drawn for a call of convert_to_patch_boxes
HalfCoords == (0 - MinHalf)..MaxHalf

\* Init draws one box with x1 <= x2 and y1 <= y2 (the data model's invariant),
\* a frame size and a side length (odd ones included: they fail the assert).
InitPatch ==
    /\ pc = "call"
    /\ ret = [status |-> "none"]
    /\ \E x1 \in HalfCoords, y1 \in HalfCoords, x2 \in HalfCoords, y2 \in HalfCoords,
          h \in 1..MaxFrame, w \in 1..MaxFrame, p \in 1..MaxSide :
          /\ x1 <= x2
          /\ y1 <= y2
          /\ call = [fn |-> "convert_to_patch_boxes",
                     boxes |-> <<Box(x1, y1, x2, y2)>>,
                     frame_size |-> <<h, w>>,
                     target_side_length |-> p]

ConvertToPatchBoxes ==
    /\ pc = "call"
    /\ call.fn = "convert_to_patch_boxes"
    /\ ret' = convert_to_patch_boxes(call.boxes, call.frame_size,
                                     call.target_side_length)
    /\ pc' = "done"
    /\ UNCHANGED call

NextPatch == ConvertToPatchBoxes

SpecPatch == InitPatch /\ [][NextPatch]_vars

\* a finished, successful call of convert_to_patch_boxes
PatchDone ==
    pc = "done" /\ call.fn = "convert_to_patch_boxes" /\ ret.status = "ok"

PatchWidth(b) == b[3] - b[1]

PatchHeight(b) == b[4] - b[2]

\* C2: every box returned by convert_to_patch_boxes for an even side length is
\* exactly target_side_length wide and high, whatever the frame size (frames
\* smaller than the patch included).
C2_PatchSizeExact ==
    PatchDone =>
        \A i \in 1..Len(ret.boxes) :
            /\ PatchWidth(ret.boxes[i]) = call.target_side_length
            /\ PatchHeight(ret.boxes[i]) = call.target_side_length

\* C2 witness: a box of odd rounded width (parity fix), larger than the patch on
\* x (shrink) and smaller on y (grow), in a frame smaller than the patch, so
\* that both clamps moved it.
C2_Witness ==
    /\ PatchDone
    /\ LET b == RoundBox(call.boxes[1])
           g == AddDeltas(ForceEven(b), call.target_side_length)
       IN /\ PatchWidth(b) % 2 = 1
          /\ PatchWidth(b) > call.target_side_length
          /\ PatchHeight(b) < call.target_side_length
          /\ call.frame_size[2] < call.target_side_length
          /\ g[2] < 0
          /\ ClampLowX(g)[3] > call.frame_size[2] - 1
    /\ PatchWidth(ret.boxes[1]) = call.target_side_length

\* C3 (as claimed): when the frame is at least target_side_length in both axes,
\* equality included, every returned box has 0 <= x1, x2 <= W-1, 0 <= y1,
\* y2 <= H-1.
C3_PatchInsideFrame ==
    (PatchDone /\ call.frame_size[1] >= call.target_side_length
               /\ call.frame_size[2] >= call.target_side_length) =>
        \A i \in 1..Len(ret.boxes) :
            /\ 0 <= ret.boxes[i][1]
            /\ ret.boxes[i][3] <= call.frame_size[2] - 1
            /\ 0 <= ret.boxes[i][2]
            /\ ret.boxes[i][4] <= call.frame_size[1] - 1

\* C10: whatever the frame size, every returned box ends at or before the high
\* edge: x2 <= W-1 and y2 <= H-1 (the high-edge clamp runs last).
C10_HighEdgeBound ==
    PatchDone =>
        \A i \in 1..Len(ret.boxes) :
            /\ ret.boxes[i][3] <= call.frame_size[2] - 1
            /\ ret.boxes[i][4] <= call.frame_size[1] - 1

\* C10 witness: a frame narrower and lower than the patch; the low-edge clamp
\* moved the box to 0 and the high-edge clamp pushed it back below 0.
C10_Witness ==
    /\ PatchDone
    /\ call.frame_size[1] < call.target_side_length
    /\ call.frame_size[2] < call.target_side_length
    /\ LET g == AddDeltas(ForceEven(RoundBox(call.boxes[1])), call.target_side_length)
       IN g[1] < 0 /\ g[2] < 0
    /\ ret.boxes[1][1] < 0
    /\ ret.boxes[1][2] < 0
    /\ ret.boxes[1][3] = call.frame_size[2] - 1
    /\ ret.boxes[1][4] = call.frame_size[1] - 1

(***************************************************************************)
(* IEEE-754 binary64 arithmetic, as far as tiled_boxes uses it             *)
(* (region.py 81-91): integer / integer, integer * double, floor, ceil and *)
(* the conversion to an integer type.  A finite non-zero double is         *)
(* [cls |-> "num", bits |-> the 53 significand bits, most significant (1)  *)
(* first, e |-> the binary exponent of the first bit]; every finite value  *)
(* on these paths is positive.  The other classes are "zero", "inf",       *)
(* "ninf" and "nan".                                                       *)
(***************************************************************************)
\* significand length of a float64
Precision == 53

FZero == [cls |-> "zero"]

FNaN == [cls |-> "nan"]

FInf == [cls |-> "inf"]

FNegInf == [cls |-> "ninf"]

\* 2^n and 2^n mod m, by repeated squaring
RECURSIVE Pow2(_)
Pow2(n) ==
    IF n = 0 THEN 1
    ELSE LET h == Pow2(n \div 2) IN IF n % 2 = 0 THEN h * h ELSE 2 * h * h

RECURSIVE Pow2Mod(_, _)
Pow2Mod(n, m) ==
    IF n = 0 THEN 1 % m
    ELSE LET h == Pow2Mod(n \div 2, m)
         IN IF n % 2 = 0 THEN (h * h) % m ELSE (2 * h * h) % m

\* the number of binary digits of n, 1 <= n < 2^30
BitLength(n) == CHOOSE k \in 1..30 : Pow2(k - 1) <= n /\ n < Pow2(k)

\* the binary digits of n >= 1, most significant first
BinDigits(n) ==
    LET len == BitLength(n) IN [i \in 1..len |-> (n \div Pow2(len - i)) % 2]

\* the value of the binary digits bits[lo..hi]
RECURSIVE BitsValue(_, _, _)
BitsValue(bits, lo, hi) ==
    IF lo > hi THEN 0
    ELSE IF lo = hi THEN bits[lo]
    ELSE LET mid == (lo + hi) \div 2
         IN BitsValue(bits, lo, mid) * Pow2(hi - mid) + BitsValue(bits, mid + 1, hi)

\* digit i (i >= 1) after the binary point of r / m, 0 <= r < m: long division
\* leaves the remainder (r * 2^(i-1)) mod m before producing digit i
FracDigit(r, m, i) == IF 2 * ((r * Pow2Mod(i - 1, m)) % m) >= m THEN 1 ELSE 0

\* the remainder of that long division after n digits
FracRem(r, m, n) == (r * Pow2Mod(n, m)) % m

\* the number of zero digits before the first one in the expansion of r / m,
\* 0 < r < m < 2^30
LeadingZeros(r, m) ==
    CHOOSE z \in 0..30 :
        /\ FracDigit(r, m, z + 1) = 1
        /\ \A j \in 1..z : FracDigit(r, m, j) = 0

\* add one unit in the last place to a significand that is not all ones
Increment(bits) ==
    LET last == CHOOSE j \in 1..Len(bits) :
                    bits[j] = 0 /\ \A i \in (j + 1)..Len(bits) : bits[i] = 1
    IN [i \in 1..Len(bits) |-> IF i < last THEN bits[i] ELSE IF i = last THEN 1 ELSE 0]

\* round to nearest, ties to even: digits holds at least Precision digits of
\* the exact value (first digit 1, exponent e), sticky tells whether non-zero
\* digits follow those given
RoundNearestEven(digits, sticky, e) ==
    LET kept == SubSeq(digits, 1, Precision)
        guard == IF Len(digits) > Precision THEN digits[Precision + 1] ELSE 0
        rest == sticky \/ \E i \in (Precision + 2)..Len(digits) : digits[i] = 1
        up == guard = 1 /\ (rest \/ kept[Precision] = 1)
        allOnes == \A i \in 1..Precision : kept[i] = 1
    IN IF ~up THEN [cls |-> "num", bits |-> kept, e |-> e]
       ELSE IF allOnes
            THEN [cls |-> "num", bits |-> [i \in 1..Precision |-> IF i = 1 THEN 1 ELSE 0],
                  e |-> e + 1]
            ELSE [cls |-> "num", bits |-> Increment(kept), e |-> e]

\* a / b in float64 for integers a and b >= 0, with a > 0 whenever b > 0.
\* numpy does not raise on b = 0: the quotient is nan (0/0), inf or -inf.
FDiv(a, b) ==
    IF b = 0 THEN (IF a = 0 THEN FNaN ELSE IF a > 0 THEN FInf ELSE FNegInf)
    ELSE IF a = 0 THEN FZero
    ELSE LET q0 == a \div b
             r0 == a % b
         IN IF q0 > 0
            THEN LET int == BinDigits(q0)
                     len == Len(int)
                 IN RoundNearestEven(
                        [i \in 1..(Precision + 1) |->
                            IF i <= len THEN int[i] ELSE FracDigit(r0, b, i - len)],
                        FracRem(r0, b, Precision + 1 - len) # 0,
                        len - 1)
            ELSE LET z == LeadingZeros(r0, b)
                 IN RoundNearestEven(
                        [i \in 1..(Precision + 1) |-> FracDigit(r0, b, z + i)],
                        FracRem(r0, b, z + Precision + 1) # 0,
                        0 - (z + 1))

\* the 13 binary digits of v < 2^13
Digits13(v) == [i \in 1..13 |-> (v \div Pow2(13 - i)) % 2]

\* the exact binary digits of k * (a 53-digit significand), 1 <= k < 2^16: the
\* significand is split into limbs of 14, 13, 13 and 13 digits that are multiplied
\* from the least significant one up, carrying
MulDigits(bits, k) ==
    LET p4 == k * BitsValue(bits, 41, 53)
        p3 == k * BitsValue(bits, 28, 40) + p4 \div 8192
        p2 == k * BitsValue(bits, 15, 27) + p3 \div 8192
        p1 == k * BitsValue(bits, 1, 14) + p2 \div 8192
    IN BinDigits(p1) \o Digits13(p2 % 8192) \o Digits13(p3 % 8192) \o Digits13(p4 % 8192)

\* k * x in float64 for an integer k >= 0 (converted exactly) and a double x
FMul(k, x) ==
    IF x.cls = "nan" THEN FNaN
    ELSE IF x.cls \in {"inf", "ninf"} THEN (IF k = 0 THEN FNaN ELSE x)
    ELSE IF x.cls = "zero" \/ k = 0 THEN FZero
    ELSE LET digits == MulDigits(x.bits, k)
         IN RoundNearestEven(digits, FALSE, x.e + (Len(digits) - Precision))

\* np.floor / np.ceil of a double, then .astype(integer type).  The conversion
\* of nan or an infinity to an integer type is undefined: the result is the
\* value nanInt the platform produces.
FloorToInt(x, nanInt) ==
    IF x.cls \in {"nan", "inf", "ninf"} THEN nanInt
    ELSE IF x.cls = "zero" THEN 0
    ELSE IF x.e < 0 THEN 0
    ELSE BitsValue(x.bits, 1, x.e + 1)

CeilToInt(x, nanInt) ==
    IF x.cls \in {"nan", "inf", "ninf"} THEN nanInt
    ELSE IF x.cls = "zero" THEN 0
    ELSE IF x.e < 0 THEN 1
    ELSE BitsValue(x.bits, 1, x.e + 1)
         + (IF \E i \in (x.e + 2)..Precision : x.bits[i] = 1 THEN 1 ELSE 0)

(***************************************************************************)
(* tiled_boxes (region.py 78-94)                                           *)
(***************************************************************************)
\* what .astype(integer) makes of nan: INT_MIN where the conversion
\* instruction returns the "integer indefinite" value, 0 where it returns 0
NanAsInt == {(0 - 2147483647) - 1, 0}

\* lines 81-82: np.ceil(frame_size / isize).astype(np.int64)
TileCount(frame_dim, isize, nanInt) == CeilToInt(FDiv(frame_dim, isize), nanInt)

\* lines 84-85: (frame_size - isize) / (tile_count - 1), a float64
TileStride(frame_dim, isize, tile_count) == FDiv(frame_dim - isize, tile_count - 1)

\* lines 90-91: np.floor(k * tile_stride).astype(np.int32)
TileOrigin(k, tile_stride, nanInt) == FloorToInt(FMul(k, tile_stride), nanInt)

\* tiled_boxes(frame, isize): frame_shape is <<rows, columns>> of the frame.
\* The loops of lines 88-92 write row 0-based index tile_count_c * r + c for
\* every r, c, so entry idx holds r = idx \div tile_count_c, c = idx % tile_count_c.
\* zero_division records that line 84 or 85 divided by zero (numpy warns and
\* goes on).
tiled_boxes(frame_shape, isize, nanInt) ==
    LET tile_count_r == TileCount(frame_shape[1], isize, nanInt)
        tile_count_c == TileCount(frame_shape[2], isize, nanInt)
        tile_stride_r == TileStride(frame_shape[1], isize, tile_count_r)
        tile_stride_c == TileStride(frame_shape[2], isize, tile_count_c)
        rows == [r \in 0..(tile_count_r - 1) |-> TileOrigin(r, tile_stride_r, nanInt)]
        cols == [c \in 0..(tile_count_c - 1) |-> TileOrigin(c, tile_stride_c, nanInt)]
    IN [status |-> "ok",
        zero_division |-> (tile_count_r - 1 = 0 \/ tile_count_c - 1 = 0),
        boxes |-> [idx \in 1..(tile_count_r * tile_count_c) |->
                     LET tile_row == rows[(idx - 1) \div tile_count_c]
                         tile_col == cols[(idx - 1) % tile_count_c]
                     IN Box(tile_col, tile_row, tile_col + isize, tile_row + isize)]]

FrameDims == (1..MaxTileDim) \cup {64, 68}

TileSides == (1..MaxTileSide) \cup {32}

InitTile ==
    /\ pc = "call"
    /\ ret = [status |-> "none"]
    /\ \E h \in FrameDims, w \in FrameDims, s \in TileSides, n \in NanAsInt :
          /\ h <= MaxTilesPerAxis * s
          /\ w <= MaxTilesPerAxis * s
          /\ call = [fn |-> "tiled_boxes", frame_shape |-> <<h, w>>, isize |-> s,
                     nan_as_int |-> n]

TiledBoxes ==
    /\ pc = "call"
    /\ call.fn = "tiled_boxes"
    /\ ret' = tiled_boxes(call.frame_shape, call.isize, call.nan_as_int)
    /\ pc' = "done"
    /\ UNCHANGED call

NextTile == TiledBoxes

SpecTile == InitTile /\ [][NextTile]_vars

TileDone == pc = "done" /\ call.fn = "tiled_boxes" /\ ret.status = "ok"

\* ceil(a / b) and floor(a / b) of the exact quotient of positive integers
CeilDiv(a, b) == (a + b - 1) \div b

\* the origin the contract gives tile k of n on an axis of length dim:
\* floor(k * stride) with stride = (dim - S) / (n - 1), and 0 for a single tile
ExactOrigin(k, n, dim, s) == IF n = 1 THEN 0 ELSE (k * (dim - s)) \div (n - 1)

\* C4 (as claimed): for every frame H x W and tile side S the result is exactly
\* ceil(H/S) * ceil(W/S) boxes of size S x S in row-major order, tile k of an
\* axis at origin floor(k * stride), and every pixel of the frame is inside
\* some tile.
C4_TilesCoverFrame ==
    TileDone =>
        LET H == call.frame_shape[1]
            W == call.frame_shape[2]
            S == call.isize
            nr == CeilDiv(H, S)
            nc == CeilDiv(W, S)
        IN /\ Len(ret.boxes) = nr * nc
           /\ \A r \in 0..(nr - 1), c \in 0..(nc - 1) :
                 ret.boxes[r * nc + c + 1] =
                     Box(ExactOrigin(c, nc, W, S), ExactOrigin(r, nr, H, S),
                         ExactOrigin(c, nc, W, S) + S, ExactOrigin(r, nr, H, S) + S)
           /\ \A y \in 0..(H - 1), x \in 0..(W - 1) :
                 \E i \in 1..Len(ret.boxes) :
                     /\ ret.boxes[i][1] <= x /\ x < ret.boxes[i][3]
                     /\ ret.boxes[i][2] <= y /\ y < ret.boxes[i][4]

\* C4, the part that does not involve a single-tile axis: with at least two
\* tiles on both axes every pixel of the frame is inside some tile.
C4_CoverageSeveralTiles ==
    (TileDone /\ call.frame_shape[1] > call.isize /\ call.frame_shape[2] > call.isize) =>
        \A y \in 0..(call.frame_shape[1] - 1), x \in 0..(call.frame_shape[2] - 1) :
            \E i \in 1..Len(ret.boxes) :
                /\ ret.boxes[i][1] <= x /\ x < ret.boxes[i][3]
                /\ ret.boxes[i][2] <= y /\ y < ret.boxes[i][4]

\* C5 (as claimed): when an axis has a single tile (frame side <= S) no
\* division by zero is performed and every tile starts at 0 on that axis.
C5_SingleTileAtOrigin ==
    TileDone =>
        /\ (call.frame_shape[1] <= call.isize) =>
              /\ ~ret.zero_division
              /\ \A i \in 1..Len(ret.boxes) :
                    ret.boxes[i][2] = 0 /\ ret.boxes[i][4] = call.isize
        /\ (call.frame_shape[2] <= call.isize) =>
              /\ ~ret.zero_division
              /\ \A i \in 1..Len(ret.boxes) :
                    ret.boxes[i][1] = 0 /\ ret.boxes[i][3] = call.isize

(***************************************************************************)
(* extract_patches_from_frame (region.py 16-75)                            *)
(*                                                                         *)
(* A frame is given by its kind ("2d": ndim 2, "3d1": one channel, "3d3":  *)
(* three channels) and its shape; the pixel at row y, column x, channel c  *)
(* (all 0-based) is the value <<y, x, c>> (<<y, x>> for a 2-d frame), so   *)
(* that a copied pixel tells where it came from.  Boxes have an integer    *)
(* dtype (the rounding of lines 31-32 applies to float boxes only).        *)
(***************************************************************************)
\* a[start:stop] on an axis of length n: the 0-based indices selected
SliceStart(start, n) == IF start < 0 THEN Max2(start + n, 0) ELSE Min2(start, n)

SliceIndices(start, stop, n) ==
    LET lo == SliceStart(start, n)
        hi == SliceStart(stop, n)
    IN [i \in 1..Max2(hi - lo, 0) |-> lo + i - 1]

\* cv2.cvtColor(..., COLOR_BGR2GRAY) of the pixel at (y, x)
Gray(y, x) == <<"gray", y, x>>

\* the element that the right-hand side of lines 52-70 reads at (y, x) for
\* output channel c
SourcePixel(kind, channels, c, y, x) ==
    IF kind = "2d" THEN <<y, x>>
    ELSE IF kind = "3d1" THEN <<y, x, 0>>
    ELSE IF channels = 0 \/ channels = 1 THEN Gray(y, x)
    ELSE <<y, x, c>>

\* patches[idx, :, :(, c)] = rhs: numpy broadcasts an axis of length 1 of rhs
\* over the isize entries of the target and raises for any other mismatch
CanAssign(rows, cols, isize) ==
    /\ Len(rows) = isize \/ Len(rows) = 1
    /\ Len(cols) = isize \/ Len(cols) = 1

\* the isize x isize plane written for one box and one output channel
AssignedPlane(kind, channels, c, rows, cols, isize) ==
    [i \in 1..isize |-> [j \in 1..isize |->
        SourcePixel(kind, channels, c,
                    rows[IF Len(rows) = 1 THEN 1 ELSE i],
                    cols[IF Len(cols) = 1 THEN 1 ELSE j])]]

\* the output slot of one box: a plane (channels = 0) or one plane per channel
PatchOf(kind, channels, rows, cols, isize) ==
    IF channels = 0 THEN AssignedPlane(kind, channels, 0, rows, cols, isize)
    ELSE [c \in 0..(channels - 1) |-> AssignedPlane(kind, channels, c, rows, cols, isize)]

\* extract_patches_from_frame(frame, boxes, isize, channels); frame_shape is
\* <<rows, columns>>.  The first box whose right-hand side cannot be assigned
\* raises, and no patches are returned.
extract_patches_from_frame(kind, frame_shape, boxes, isize, channels) ==
    LET rows(b) == SliceIndices(b[2], b[4], frame_shape[1])
        cols(b) == SliceIndices(b[1], b[3], frame_shape[2])
    IN IF \E idx \in 1..Len(boxes) :
              ~CanAssign(rows(boxes[idx]), cols(boxes[idx]), isize)
       THEN [status |-> "error"]
       ELSE [status |-> "ok",
             patches |-> [idx \in 1..Len(boxes) |->
                 PatchOf(kind, channels, rows(boxes[idx]), cols(boxes[idx]), isize)]]

PixCoords == (0 - 1)..(MaxPix + 1)

\* Init draws a frame, a patch side, a channel count and a batch: one box, or
\* that box after a box that fits the frame's corner
InitExtract ==
    /\ pc = "call"
    /\ ret = [status |-> "none"]
    /\ \E kind \in {"2d", "3d1", "3d3"}, h \in 1..MaxPix, w \in 1..MaxPix,
          isize \in 1..MaxPatch, channels \in 0..3, two \in BOOLEAN,
          x1 \in PixCoords, y1 \in PixCoords, x2 \in PixCoords, y2 \in PixCoords :
          call = [fn |-> "extract_patches_from_frame",
                  kind |-> kind, frame_shape |-> <<h, w>>, isize |-> isize,
                  channels |-> channels,
                  boxes |-> IF two THEN <<Box(0, 0, isize, isize), Box(x1, y1, x2, y2)>>
                            ELSE <<Box(x1, y1, x2, y2)>>]

ExtractPatches ==
    /\ pc = "call"
    /\ call.fn = "extract_patches_from_frame"
    /\ ret' = extract_patches_from_frame(call.kind, call.frame_shape, call.boxes,
                                         call.isize, call.channels)
    /\ pc' = "done"
    /\ UNCHANGED call

NextExtract == ExtractPatches

SpecExtract == InitExtract /\ [][NextExtract]_vars

ExtractDone == pc = "done" /\ call.fn = "extract_patches_from_frame"

\* C6 (as claimed): a call that returns patches has, for every box of the
\* batch, copied exactly the isize x isize sub-rectangle frame[y1:y2, x1:x2];
\* a box whose sub-rectangle is not isize x isize makes the call fail.
C6_CopyOrFail ==
    (ExtractDone /\ ret.status = "ok") =>
        \A idx \in 1..Len(call.boxes) :
            LET b == call.boxes[idx]
                rows == SliceIndices(b[2], b[4], call.frame_shape[1])
                cols == SliceIndices(b[1], b[3], call.frame_shape[2])
            IN /\ Len(rows) = call.isize
               /\ Len(cols) = call.isize
               /\ \A i \in 1..call.isize, j \in 1..call.isize :
                     \A c \in 0..Max2(call.channels - 1, 0) :
                        (IF call.channels = 0 THEN ret.patches[idx][i][j]
                         ELSE ret.patches[idx][c][i][j])
                        = SourcePixel(call.kind, call.channels, c, rows[i], cols[j])

(***************************************************************************)
(* torchvision.ops.boxes as used by the pipeline (region.py 188-201,       *)
(* 253-278): clip_boxes_to_image, remove_small_boxes, nms.                 *)
(* Tensors are sequences; an index tensor is a sequence of 1-based         *)
(* positions.  An IoU threshold is the fraction <<num, den>>.  A sequence  *)
(* built element by element is followed by \o <<>>, which changes nothing  *)
(* but has TLC evaluate its elements once instead of at every use.         *)
(***************************************************************************)
\* tensor[index]: the rows picked by an index tensor, in its order
Gather(rows, index) == [i \in 1..Len(index) |-> rows[index[i]]]

\* torch.nonzero(mask) / torch.where(mask): the positions where a boolean
\* tensor is true, in increasing order
NonZero(mask) ==
    LET before == [i \in 1..Len(mask) |-> Cardinality({j \in 1..i : mask[j]})] \o <<>>
        count == IF Len(mask) = 0 THEN 0 ELSE before[Len(mask)]
    IN [k \in 1..count |-> CHOOSE i \in 1..Len(mask) : mask[i] /\ before[i] = k] \o <<>>

\* clip_boxes_to_image(boxes, size): x into [0, width], y into [0, height];
\* size is <<height, width>>
Clamp(v, lo, hi) == Max2(lo, Min2(v, hi))

clip_boxes_to_image(boxes, size) ==
    [i \in 1..Len(boxes) |->
        Box(Clamp(boxes[i][1], 0, size[2]), Clamp(boxes[i][2], 0, size[1]),
            Clamp(boxes[i][3], 0, size[2]), Clamp(boxes[i][4], 0, size[1]))]

\* remove_small_boxes(boxes, min_size): the indices of the boxes whose width
\* and height are both at least min_size
remove_small_boxes(boxes, min_size) ==
    NonZero([i \in 1..Len(boxes) |->
                /\ boxes[i][3] - boxes[i][1] >= min_size
                /\ boxes[i][4] - boxes[i][2] >= min_size])

BoxArea(b) == (b[3] - b[1]) * (b[4] - b[2])

Intersection(a, b) ==
    Max2(0, Min2(a[3], b[3]) - Max2(a[1], b[1]))
        * Max2(0, Min2(a[4], b[4]) - Max2(a[2], b[2]))

\* IoU(a, b) > thresh, for thresh = num / den; a zero union (0/0) is not above
IoUAbove(a, b, thresh) ==
    LET inter == Intersection(a, b)
    IN inter * thresh[2] > thresh[1] * (BoxArea(a) + BoxArea(b) - inter)

\* the positions of scores in decreasing order of score, equal scores in
\* their original order
SortDescending(scores) ==
    LET n == Len(scores)
        rank == [i \in 1..n |->
                    Cardinality({j \in 1..n : scores[j] > scores[i]
                                              \/ (scores[j] = scores[i] /\ j < i)}) + 1]
             \o <<>>
    IN [k \in 1..n |-> CHOOSE i \in 1..n : rank[i] = k] \o <<>>

\* greedy suppression over order[lo..hi]; kept holds the indices selected so far
RECURSIVE Suppress(_, _, _, _, _, _)
Suppress(boxes, order, thresh, lo, hi, kept) ==
    IF lo > hi THEN kept
    ELSE IF lo = hi
    THEN LET box == boxes[order[lo]]
         IN IF \E j \in 1..Len(kept) : IoUAbove(boxes[kept[j]], box, thresh)
            THEN kept
            ELSE Append(kept, order[lo])
    ELSE LET mid == (lo + hi) \div 2
             first == Suppress(boxes, order, thresh, lo, mid, kept)
         IN IF Len(first) >= 0
            THEN Suppress(boxes, order, thresh, mid + 1, hi, first)
            ELSE first

\* nms(boxes, scores, iou_threshold): the indices kept, in decreasing order of
\* score
nms(boxes, scores, iou_threshold) ==
    Suppress(boxes, SortDescending(scores), iou_threshold, 1, Len(boxes), <<>>)

(***************************************************************************)
(* RegionExtractor (region.py 102-288)                                     *)
(*                                                                         *)
(* The configuration cfg holds the fields __init__ sets: stage,            *)
(* patch_mode, use_original, min_size, stage_nms_thresh,                   *)
(* rcnn_score_thresh, patch_side_length, and training (nn.Module's mode).  *)
(* The networks (transform, backbone, rpn, box heads, box_coder.decode,    *)
(* softmax, base_model) are external: what they return for a frame is part *)
(* of the call's arguments.  A frame is the record                         *)
(*   original_image_size, new_image_size : <<height, width>>               *)
(*   proposals   : the boxes self.rpn returns for it                       *)
(*   pred_boxes, pred_scores : per proposal and class (background first),  *)
(*                 the decoded box and the softmax score                   *)
(*   base_boxes  : the boxes self.base_model returns for it                *)
(* Scores are whole numbers of tenths.                                     *)
(***************************************************************************)
\* mutant: torch.arange(1, 1001), ranks growing with the position
pseudo_scores_Ascending == [i \in 1..1000 |-> i]

\* line 112: torch.arange(1000, 0, -1)
pseudo_scores == [i \in 1..1000 |-> 1000 - i + 1]

\* line 125
rcnn_detections_per_img == 100

\* line 129, as the fraction 3/10
patch_nms_thresh == <<3, 10>>

\* tensor[:n]
Prefix(rows, n) == SubSeq(rows, 1, Min2(n, Len(rows)))

\* update_box_sizes_following_image_resize(boxes, original_size, new_size):
\* every coordinate times new/original of its axis.  The result is in half
\* units; the sizes drawn make every product a whole number of halves.
update_box_sizes_following_image_resize(boxes, original_size, new_size) ==
    [i \in 1..Len(boxes) |->
        Box((2 * boxes[i][1] * new_size[2]) \div original_size[2],
            (2 * boxes[i][2] * new_size[1]) \div original_size[1],
            (2 * boxes[i][3] * new_size[2]) \div original_size[2],
            (2 * boxes[i][4] * new_size[1]) \div original_size[1])] \o <<>>

\* lines 198-202 and 220-225: patch mode.  boxes are in half units, scores may
\* be <<>> (proposal stage).
PatchStage(cfg, boxes, scores, original_image_size) ==
    LET conv == convert_to_patch_boxes(boxes, original_image_size, cfg.patch_side_length)
    IN IF conv.status # "ok" THEN [status |-> conv.status]
       ELSE LET patch == conv.boxes \o <<>>
                keep == nms(patch, Prefix(pseudo_scores, Len(patch)), patch_nms_thresh)
            IN [status |-> "ok", patch_boxes |-> patch, keep |-> keep,
                boxes |-> Gather(patch, keep),
                scores |-> IF scores = <<>> THEN <<>> ELSE Gather(scores, keep)]

\* mutant: line 193 with self.patch_nms_thresh for self.stage_nms_thresh
StageNms_PatchThreshold(cfg, boxes) ==
    nms(boxes, Prefix(pseudo_scores, Len(boxes)), patch_nms_thresh)

\* line 193: box_ops.nms(boxes, self.pseudo_scores[: boxes.shape[0]], self.stage_nms_thresh)
StageNms(cfg, boxes) ==
    nms(boxes, Prefix(pseudo_scores, Len(boxes)), cfg.stage_nms_thresh)

\* lines 187-204: the body of the proposal-stage loop for one frame
RpnFrame(cfg, frame) ==
    LET clipped == clip_boxes_to_image(frame.proposals, frame.new_image_size) \o <<>>
        sized == Gather(clipped, remove_small_boxes(clipped, cfg.min_size)) \o <<>>
        keep == StageNms(cfg, sized)
        suppressed == Gather(sized, keep) \o <<>>
        rescaled == update_box_sizes_following_image_resize(
                        suppressed, frame.new_image_size, frame.original_image_size)
        patch == PatchStage(cfg, rescaled, <<>>, frame.original_image_size)
    IN IF cfg.patch_mode /\ patch.status # "ok" THEN [status |-> patch.status]
       ELSE [status |-> "ok", sized |-> sized, keep |-> keep, suppressed |-> suppressed,
             rescaled |-> rescaled,
             boxes |-> IF cfg.patch_mode THEN patch.boxes ELSE rescaled,
             scores |-> <<>>]

\* lines 260-267: drop the background column and make every class prediction
\* of every proposal a separate instance, proposal by proposal
FlattenClasses(rows, num_classes) ==
    [k \in 1..(Len(rows) * (num_classes - 1)) |->
        rows[((k - 1) \div (num_classes - 1)) + 1][((k - 1) % (num_classes - 1)) + 2]] \o <<>>

\* mutant: line 281 keeping the tail keep[-n:] instead of the head
TopDetections_Tail(keep) ==
    SubSeq(keep, Max2(1, Len(keep) - rcnn_detections_per_img + 1), Len(keep))

\* line 281: keep[: self.rcnn_detections_per_img]
TopDetections(keep) == Prefix(keep, rcnn_detections_per_img)

\* lines 252-286: the body of the loop of postprocess_detections for one image
PostprocessImage(cfg, pred_boxes, pred_scores, num_classes, image_shape) ==
    LET boxes0 == clip_boxes_to_image(FlattenClasses(pred_boxes, num_classes), image_shape)
                      \o <<>>
        scores0 == FlattenClasses(pred_scores, num_classes)
        labels0 == [k \in 1..Len(scores0) |-> ((k - 1) % (num_classes - 1)) + 1] \o <<>>
        inds == NonZero([k \in 1..Len(scores0) |-> scores0[k] > cfg.rcnn_score_thresh])
        boxes1 == Gather(boxes0, inds) \o <<>>
        scores1 == Gather(scores0, inds) \o <<>>
        labels1 == Gather(labels0, inds) \o <<>>
        big == remove_small_boxes(boxes1, cfg.min_size)
        boxes2 == Gather(boxes1, big) \o <<>>
        scores2 == Gather(scores1, big) \o <<>>
        labels2 == Gather(labels1, big) \o <<>>
        nms_keep == nms(boxes2, scores2, cfg.stage_nms_thresh)
        keep == TopDetections(nms_keep)
    IN [candidates |-> [boxes |-> boxes0, scores |-> scores0],
        filtered |-> [boxes |-> boxes2, scores |-> scores2],
        nms_keep |-> nms_keep,
        keep |-> keep,
        boxes |-> Gather(boxes2, keep) \o <<>>,
        scores |-> Gather(scores2, keep) \o <<>>,
        labels |-> Gather(labels2, keep) \o <<>>]

\* postprocess_detections: one entry per image (all_boxes, all_scores and
\* all_labels are the boxes, scores and labels fields of the entries)
postprocess_detections(cfg, frames, num_classes) ==
    [i \in 1..Len(frames) |->
        PostprocessImage(cfg, frames[i].pred_boxes, frames[i].pred_scores, num_classes,
                         frames[i].new_image_size)]

\* lines 215-228: the body of the classified-stage loop for one frame
RcnnFrame(cfg, frame, detections) ==
    LET rescaled == update_box_sizes_following_image_resize(
                        detections.boxes, frame.new_image_size, frame.original_image_size)
        patch == PatchStage(cfg, rescaled, detections.scores, frame.original_image_size)
    IN IF cfg.patch_mode /\ patch.status # "ok" THEN [status |-> patch.status]
       ELSE [status |-> "ok", detections |-> detections, rescaled |-> rescaled,
             boxes |-> IF cfg.patch_mode THEN patch.boxes ELSE rescaled,
             scores |-> IF cfg.patch_mode THEN patch.scores ELSE detections.scores]

\* the value forward returns on line 233, as the per-frame entries it holds:
\* output_boxes[0] is the entry of the first frame alone, and no entry of
\* output_scores is returned
ReturnValue(output_boxes, output_scores) ==
    [boxes |-> <<output_boxes[1]>>, scores |-> <<>>]

\* forward(cv2_images), lines 147-233, for a non-empty list of frames
forward(cfg, frames, num_classes) ==
    IF cfg.training THEN [status |-> "ValueError"]
    ELSE IF cfg.use_original
    THEN [status |-> "ok",
          value |-> [boxes |-> [i \in 1..Len(frames) |-> frames[i].base_boxes],
                     scores |-> <<>>]]
    ELSE LET detections == postprocess_detections(cfg, frames, num_classes)
             per_frame == [i \in 1..Len(frames) |->
                              IF cfg.stage = "rpn" THEN RpnFrame(cfg, frames[i])
                              ELSE RcnnFrame(cfg, frames[i], detections[i])] \o <<>>
         IN IF \E i \in 1..Len(frames) : per_frame[i].status # "ok"
            THEN [status |-> (per_frame[CHOOSE i \in 1..Len(frames) :
                                  /\ per_frame[i].status # "ok"
                                  /\ \A j \in 1..(i - 1) : per_frame[j].status = "ok"]).status]
            ELSE LET output_boxes == [i \in 1..Len(frames) |-> per_frame[i].boxes]
                     output_scores == [i \in 1..Len(frames) |-> per_frame[i].scores]
                 IN [status |-> "ok",
                     per_frame |-> per_frame,
                     output_boxes |-> output_boxes,
                     output_scores |-> output_scores,
                     value |-> ReturnValue(output_boxes, output_scores)]

Forward ==
    /\ pc = "call"
    /\ call.fn = "forward"
    /\ ret' = forward(call.cfg, call.frames, call.num_classes)
    /\ pc' = "done"
    /\ UNCHANGED call

PostprocessDetections ==
    /\ pc = "call"
    /\ call.fn = "postprocess_detections"
    /\ ret' = [status |-> "ok",
              images |-> postprocess_detections(call.cfg, call.frames, call.num_classes)]
    /\ pc' = "done"
    /\ UNCHANGED call

(***************************************************************************)
(* Calls of the pipeline.                                                  *)
(***************************************************************************)
\* the network output for a proposal whose foreground prediction is box with
\* score s (tenths): the background column first, then the foreground
\* classes, of which only the first scores above 0
PredBoxes(box, num_classes) == [c \in 1..num_classes |-> box]

PredScores(s, num_classes) ==
    [c \in 1..num_classes |-> IF c = 1 THEN 10 - s ELSE IF c = 2 THEN s ELSE 0]

\* a frame whose network outputs are the detections dets: a sequence of
\* <<box, score>>
FrameOf(original_image_size, new_image_size, dets, num_classes) ==
    [original_image_size |-> original_image_size,
     new_image_size |-> new_image_size,
     proposals |-> [n \in 1..Len(dets) |-> dets[n][1]],
     pred_boxes |-> [n \in 1..Len(dets) |-> PredBoxes(dets[n][1], num_classes)],
     pred_scores |-> [n \in 1..Len(dets) |-> PredScores(dets[n][2], num_classes)],
     base_boxes |-> [n \in 1..Len(dets) |-> dets[n][1]]]

\* all sequences of at most n elements of S
SeqsUpTo(S, n) == UNION {[1..k -> S] : k \in 0..n}

Thresholds == {<<3, 10>>, <<9, 10>>}

\* ---- forward on a list of frames (C1) ----
FewDetections ==
    {<<>>, <<<<Box(0, 0, 2, 2), 5>>>>,
     <<<<Box(0, 0, 2, 2), 5>>, <<Box(1, 0, 3, 2), 3>>>>}

SomeFrames(num_classes) ==
    {FrameOf(o, <<2, 4>>, d, num_classes) : o \in {<<2, 4>>, <<4, 8>>}, d \in FewDetections}

InitFrames ==
    /\ pc = "call"
    /\ ret = [status |-> "none"]
    /\ \E stage \in {"rpn", "rcnn"}, patch_mode \in BOOLEAN, use_original \in BOOLEAN,
          training \in BOOLEAN, side \in {2, 3}, num_classes \in {2, 3}, k \in 1..MaxFrames :
          \E frames \in [1..k -> SomeFrames(num_classes)] :
              call = [fn |-> "forward",
                      cfg |-> [stage |-> stage, patch_mode |-> patch_mode,
                               use_original |-> use_original, training |-> training,
                               min_size |-> 1, stage_nms_thresh |-> <<3, 10>>,
                               rcnn_score_thresh |-> 2, patch_side_length |-> side],
                      frames |-> frames, num_classes |-> num_classes]

NextFrames == Forward

SpecFrames == InitFrames /\ [][NextFrames]_vars

\* ---- forward on one frame with boxes that overlap in many ways (C7, C8) ----
\* the image is 2 high and 10 wide; the last box reaches past its right edge
RegionBoxes ==
    {Box(0, 0, 1, 2), Box(0, 0, 9, 2), Box(0, 0, 10, 2), Box(1, 0, 9, 2),
     Box(1, 0, 10, 2), Box(9, 0, 10, 2), Box(8, 0, 12, 2)}

RegionDetections ==
    {<<b, 5>> : b \in RegionBoxes}
        \cup {<<Box(0, 0, 9, 2), 3>>, <<Box(0, 0, 10, 2), 3>>, <<Box(1, 0, 10, 2), 1>>}

InitRegions ==
    /\ pc = "call"
    /\ ret = [status |-> "none"]
    /\ \E stage \in {"rpn", "rcnn"}, patch_mode \in BOOLEAN, min_size \in {1, 2},
          thresh \in Thresholds :
          \E dets \in SeqsUpTo(IF stage = "rpn" THEN {<<b, 5>> : b \in RegionBoxes}
                               ELSE RegionDetections, MaxProposals) :
              call = [fn |-> "forward",
                      cfg |-> [stage |-> stage, patch_mode |-> patch_mode,
                               use_original |-> FALSE, training |-> FALSE,
                               min_size |-> min_size, stage_nms_thresh |-> thresh,
                               rcnn_score_thresh |-> 2, patch_side_length |-> 2],
                      frames |-> <<FrameOf(<<2, 10>>, <<2, 10>>, dets, 2)>>,
                      num_classes |-> 2]

NextRegions == Forward

SpecRegions == InitRegions /\ [][NextRegions]_vars

\* ---- postprocess_detections on more detections than it may return (C9) ----
\* a row of count disjoint boxes 2 x 2, box i scored by pattern
RowBox(i) == Box(2 * (i - 1), 0, 2 * i, 2)

RowScore(pattern, i) ==
    IF pattern = "equal" THEN 5
    ELSE IF pattern = "alternating" THEN (IF i % 2 = 1 THEN 3 ELSE 6)
    ELSE (IF i % 3 = 0 THEN 1 ELSE 4)

RowWidth == 2 * (rcnn_detections_per_img + MaxExtra + 2)

\* free detections: across the first two boxes of the row (scored below and
\* above them), a narrow one, and one that reaches past the right edge
FreeDetections ==
    {<<Box(1, 0, 3, 2), 4>>, <<Box(1, 0, 3, 2), 6>>,
     <<Box(0, 0, 1, 2), 6>>, <<Box(RowWidth - 2, 0, RowWidth + 2, 2), 3>>}

RowCounts == {0, rcnn_detections_per_img - 1, rcnn_detections_per_img + MaxExtra}

InitDetections ==
    /\ pc = "call"
    /\ ret = [status |-> "none"]
    /\ \E count \in RowCounts, pattern \in {"equal", "alternating", "thirds"},
          min_size \in {1, 2}, num_classes \in {2, 3} :
          \E free \in SeqsUpTo(FreeDetections, MaxFree) :
              call = [fn |-> "postprocess_detections",
                      cfg |-> [stage |-> "rcnn", patch_mode |-> FALSE,
                               use_original |-> FALSE, training |-> FALSE,
                               min_size |-> min_size, stage_nms_thresh |-> <<3, 10>>,
                               rcnn_score_thresh |-> 2, patch_side_length |-> 2],
                      frames |-> <<FrameOf(<<2, RowWidth>>, <<2, RowWidth>>,
                                           free \o [i \in 1..count |->
                                                       <<RowBox(i), RowScore(pattern, i)>>],
                                           num_classes)>>,
                      num_classes |-> num_classes]

NextDetections == PostprocessDetections

SpecDetections == InitDetections /\ [][NextDetections]_vars

(***************************************************************************)
(* Properties of the pipeline.                                             *)
(***************************************************************************)
ForwardDone ==
    /\ pc = "done" /\ call.fn = "forward" /\ ret.status = "ok"
    /\ ~call.cfg.use_original

IdentityIndex(n) == [i \in 1..n |-> i]

\* C1 (as claimed): forward with use_original = False on k >= 1 frames returns
\* the final boxes of every frame, the i-th entry being those of the i-th
\* frame, and in the classified stage the matching scores.
C1_EveryFrameReturned ==
    ForwardDone =>
        /\ Len(ret.value.boxes) = Len(call.frames)
        /\ \A i \in 1..Len(call.frames) : ret.value.boxes[i] = ret.output_boxes[i]
        /\ call.cfg.stage = "rcnn" =>
              /\ Len(ret.value.scores) = Len(call.frames)
              /\ \A i \in 1..Len(call.frames) : ret.value.scores[i] = ret.output_scores[i]

\* C7: running NMS again, with the same threshold, on the boxes (and scores)
\* that the stage NMS of the pipeline kept keeps every one of them, in the
\* same order: the indices kept are 1, 2, ..., n.
C7_NmsIdempotent ==
    ForwardDone =>
        \A i \in 1..Len(call.frames) :
            LET f == ret.per_frame[i]
            IN IF call.cfg.stage = "rpn"
               THEN StageNms(call.cfg, f.suppressed) = IdentityIndex(Len(f.suppressed))
               ELSE LET d == f.detections
                        boxes == Gather(d.filtered.boxes, d.nms_keep) \o <<>>
                        scores == Gather(d.filtered.scores, d.nms_keep) \o <<>>
                    IN nms(boxes, scores, call.cfg.stage_nms_thresh)
                           = IdentityIndex(Len(boxes))

\* C7 witness: a classified-stage call in which NMS dropped a box and kept at
\* least two boxes of equal score.
C7_Witness ==
    /\ ForwardDone
    /\ call.cfg.stage = "rcnn"
    /\ LET d == ret.per_frame[1].detections
       IN /\ Len(d.nms_keep) < Len(d.filtered.boxes)
          /\ \E a, b \in 1..Len(d.nms_keep) :
                a < b /\ d.filtered.scores[d.nms_keep[a]] = d.filtered.scores[d.nms_keep[b]]

\* C8: in the proposal stage a size-filtered box is dropped by NMS iff its IoU
\* with an earlier-positioned kept box is above overlap_threshold; so the
\* first box survives and the survivors keep their relative order.
C8_EarlierBoxWins ==
    (ForwardDone /\ call.cfg.stage = "rpn") =>
        \A n \in 1..Len(call.frames) :
            LET f == ret.per_frame[n]
                kept(i) == \E k \in 1..Len(f.keep) : f.keep[k] = i
            IN /\ Len(f.sized) <= Len(pseudo_scores)
               /\ \A i \in 1..Len(f.sized) :
                     (~kept(i)) <=>
                         \E j \in 1..(i - 1) :
                             kept(j) /\ IoUAbove(f.sized[j], f.sized[i],
                                                 call.cfg.stage_nms_thresh)
               /\ Len(f.sized) >= 1 => kept(1)
               /\ \A a, b \in 1..Len(f.keep) : a < b => f.keep[a] < f.keep[b]
               /\ f.suppressed = [k \in 1..Len(f.keep) |-> f.sized[f.keep[k]]]

\* C8 witness: two boxes of IoU 0.9 (9 x 2 inside 10 x 2) under threshold 0.3,
\* of which exactly the earlier one survived.
C8_Witness ==
    /\ ForwardDone
    /\ call.cfg.stage = "rpn"
    /\ call.cfg.stage_nms_thresh = <<3, 10>>
    /\ LET f == ret.per_frame[1]
       IN /\ Len(f.sized) = 2
          /\ 10 * Intersection(f.sized[1], f.sized[2])
                = 9 * (BoxArea(f.sized[1]) + BoxArea(f.sized[2])
                       - Intersection(f.sized[1], f.sized[2]))
          /\ f.suppressed = <<f.sized[1]>>

DetectionsDone == pc = "done" /\ call.fn = "postprocess_detections"

\* C9: for each image postprocess_detections returns at most
\* max_detections_per_image boxes; they are NMS survivors, and every survivor
\* cut off scores no higher than every survivor returned; every returned box
\* scored above the confidence threshold and is at least min_size wide and
\* high; scores[i] is the score the network gave boxes[i].
C9_TopScoringSurvivors ==
    DetectionsDone =>
        \A n \in 1..Len(ret.images) :
            LET d == ret.images[n]
                returned(m) == \E k \in 1..Len(d.keep) : d.keep[k] = d.nms_keep[m]
            IN /\ Len(d.boxes) <= rcnn_detections_per_img
               /\ Len(d.boxes) = Min2(rcnn_detections_per_img, Len(d.nms_keep))
               /\ Len(d.scores) = Len(d.boxes)
               /\ \A k \in 1..Len(d.keep) :
                     /\ \E m \in 1..Len(d.nms_keep) : d.nms_keep[m] = d.keep[k]
                     /\ d.boxes[k] = d.filtered.boxes[d.keep[k]]
                     /\ d.scores[k] = d.filtered.scores[d.keep[k]]
               /\ \A m \in 1..Len(d.nms_keep) :
                     ~returned(m) =>
                         \A k \in 1..Len(d.keep) :
                             d.filtered.scores[d.nms_keep[m]] <= d.scores[k]
               /\ \A k \in 1..Len(d.boxes) :
                     /\ d.scores[k] > call.cfg.rcnn_score_thresh
                     /\ d.boxes[k][3] - d.boxes[k][1] >= call.cfg.min_size
                     /\ d.boxes[k][4] - d.boxes[k][2] >= call.cfg.min_size
                     /\ \E c \in 1..Len(d.candidates.boxes) :
                           /\ d.candidates.boxes[c] = d.boxes[k]
                           /\ d.candidates.scores[c] = d.scores[k]

\* C9 witness: more than max_detections_per_image boxes survived NMS, of
\* different scores, after the score filter, the size filter and NMS each
\* dropped a detection; the cut left exactly max_detections_per_image.
C9_Witness ==
    /\ DetectionsDone
    /\ LET d == ret.images[1]
       IN /\ Len(d.nms_keep) > rcnn_detections_per_img
          /\ Len(d.boxes) = rcnn_detections_per_img
          /\ d.scores[1] > d.scores[Len(d.scores)]
          /\ Len(d.nms_keep) < Len(d.filtered.boxes)
          /\ \E c \in 1..Len(d.candidates.scores) :
                d.candidates.scores[c] <= call.cfg.rcnn_score_thresh
          /\ \E c \in 1..Len(d.candidates.boxes) :
                /\ d.candidates.scores[c] > call.cfg.rcnn_score_thresh
                /\ d.candidates.boxes[c][3] - d.candidates.boxes[c][1] < call.cfg.min_size

====
